---- MODULE Spec2Model ----
(***************************************************************************)
(* A model of the Daml asset/account workflow of wallet-refapp             *)
(* (daml/Asset.daml: modules Asset and Account).                           *)
(*                                                                         *)
(* The ledger is the set of active contracts of the four templates, each   *)
(* contract carrying its contract id.  A command is one create or one      *)
(* exercise submitted by one party; it is evaluated as a Daml Update:      *)
(* a pure function from the ledger to either a new ledger or an abort,     *)
(* and an aborted command commits nothing.                                 *)
(*                                                                         *)
(* Decimal amounts are modelled by integers (whole units).                 *)
(***************************************************************************)
EXTENDS Integers, FiniteSets, Sequences

\* ------------------------------------------------------------------ bounds

\* Contract ids are handed out in increasing order; no command that would
\* allocate an id above MaxCid is taken.
MaxCid == 5

\* The largest amount a command may name or an Asset may reach.
MaxAmount == 2

\* ----------------------------------------------------------------- parties

Parties == {"Alice", "Bob", "Chris"}

\* The two asset types of the test script: a fungible token issued by Alice
\* and a non-fungible token issued by Chris.
alice_tkn ==
    [issuer |-> "Alice", symbol |-> "ALC", fungible |-> TRUE, reference |-> "None"]

chris_nft ==
    [issuer |-> "Chris", symbol |-> "NFT", fungible |-> FALSE,
     reference |-> "http://google.com"]

AssetType == {alice_tkn, chris_nft}

\* Amounts a submitter may name: negative, zero and positive.
Amounts == (0 - 1) .. MaxAmount

\* "No contract": the None of lookupByKey, and the result of a failed command.
None == 0

\* ------------------------------------------------------- template: Asset

\* signatory asset_type.issuer, owner
AssetSignatory(a) == {a.asset_type.issuer, a.owner}

\* A slip in the ensure clause: any amount from 0.0 up passes, whatever the type.
AssetEnsure_AnyNonNegative(a) == a.amount >= 0

\* ensure (if fungible then amount > 0.0 else (amount == 1.0 || amount == 0.0))
AssetEnsure(a) ==
    IF a.asset_type.fungible THEN a.amount > 0 ELSE (a.amount = 1 \/ a.amount = 0)

\* key (asset_type, owner)
AssetKey(a) == <<a.asset_type, a.owner>>

\* ----------------------------------------------- template: AssetTransfer

\* signatory (signatory asset)
TransferSignatory(t) == AssetSignatory(t.asset)

\* observer (observer asset), recipient: an Asset declares no observer
TransferObserver(t) == {t.recipient}

\* ----------------------------------------- template: AssetHoldingAccount

\* An AssetHoldingAccount the issuer alone signs.
AccountSignatory_IssuerOnly(acc) == {acc.asset_type.issuer}

AccountSignatory(acc) == {acc.asset_type.issuer, acc.owner}

AccountKey(acc) == <<acc.asset_type, acc.owner>>

\* --------------------------------- template: AssetHoldingAccountProposal

ProposalSignatory(p) == {p.account.asset_type.issuer}

ProposalObserver(p) == {p.recipient}

\* ------------------------------------------------------------ the ledger

\* The ledger with no contract on it.
EmptyLedger ==
    [assets |-> {}, transfers |-> {}, accounts |-> {}, proposals |-> {}, nextCid |-> 1]

\* The outcome of an Update: committed ledger and result, or an abort.
Ret(L, cid) == [ok |-> TRUE, err |-> "", ledger |-> L, out |-> cid]

Abort(L, e) == [ok |-> FALSE, err |-> e, ledger |-> L, out |-> None]

Contract(cid, payload) == [cid |-> cid, payload |-> payload]

\* lookupByKey @Asset: the id of the active Asset with this key, if any
LookupAssetByKey(L, k) ==
    LET found == {c \in L.assets : AssetKey(c.payload) = k}
    IN  IF found = {} THEN None ELSE (CHOOSE c \in found : TRUE).cid

LookupAccountByKey(L, k) ==
    LET found == {c \in L.accounts : AccountKey(c.payload) = k}
    IN  IF found = {} THEN None ELSE (CHOOSE c \in found : TRUE).cid

\* fetch: the payload of an active contract
FetchAsset(L, cid) == (CHOOSE c \in L.assets : c.cid = cid).payload

\* archive
ArchiveAsset(L, cid) == [L EXCEPT !.assets = {c \in @ : c.cid # cid}]

\* Choices on an AssetTransfer that do not consume it.
ArchiveTransfer_Nonconsuming(L, cid) == L

ArchiveTransfer(L, cid) == [L EXCEPT !.transfers = {c \in @ : c.cid # cid}]

ArchiveProposal(L, cid) == [L EXCEPT !.proposals = {c \in @ : c.cid # cid}]

\* A ledger that does not enforce the Asset key.
AssetKeyFree_Unchecked(L, a) == TRUE

\* The ledger's key-uniqueness check at a create.
AssetKeyFree(L, a) == LookupAssetByKey(L, AssetKey(a)) = None

\* A ledger that does not enforce the AssetHoldingAccount key.
AccountKeyFree_Unchecked(L, acc) == TRUE

AccountKeyFree(L, acc) == LookupAccountByKey(L, AccountKey(acc)) = None

\* create: every signatory must authorize, the ensure clause must hold and
\* the key must not be held by an active contract.
CreateAsset(L, auth, a) ==
    IF ~(AssetSignatory(a) \subseteq auth) THEN Abort(L, "Unauthorized")
    ELSE IF ~AssetEnsure(a) THEN Abort(L, "EnsureViolated")
    ELSE IF ~AssetKeyFree(L, a) THEN Abort(L, "DuplicateKey")
    ELSE Ret([L EXCEPT !.assets = @ \cup {Contract(L.nextCid, a)},
                       !.nextCid = @ + 1], L.nextCid)

CreateTransfer(L, auth, t) ==
    IF ~(TransferSignatory(t) \subseteq auth) THEN Abort(L, "Unauthorized")
    ELSE Ret([L EXCEPT !.transfers = @ \cup {Contract(L.nextCid, t)},
                       !.nextCid = @ + 1], L.nextCid)

CreateAccount(L, auth, acc) ==
    IF ~(AccountSignatory(acc) \subseteq auth) THEN Abort(L, "Unauthorized")
    ELSE IF ~AccountKeyFree(L, acc) THEN Abort(L, "DuplicateKey")
    ELSE Ret([L EXCEPT !.accounts = @ \cup {Contract(L.nextCid, acc)},
                       !.nextCid = @ + 1], L.nextCid)

CreateProposal(L, auth, p) ==
    IF ~(ProposalSignatory(p) \subseteq auth) THEN Abort(L, "Unauthorized")
    ELSE Ret([L EXCEPT !.proposals = @ \cup {Contract(L.nextCid, p)},
                       !.nextCid = @ + 1], L.nextCid)

\* A merge that forgets the amount of the Asset it archives.
PreviousAssetAmount_Forgotten(L, assetCid) == 0

\* The amount held at a key before a merge: the archived Asset's, or 0.0.
PreviousAssetAmount(L, assetCid) ==
    IF assetCid = None THEN 0 ELSE FetchAsset(L, assetCid).amount

\* The ledger after the optional archive of the Asset found by key.
ArchivePrevious(L, assetCid) ==
    IF assetCid = None THEN L ELSE ArchiveAsset(L, assetCid)

\* ------------------------------------------------- choices: AssetTransfer

\* choice Cancel_Transfer, controller asset.owner (consuming)
Cancel_Transfer(L, self, by) ==
    LET this == self.payload
        auth == TransferSignatory(this) \cup {by}
        L1 == ArchiveTransfer(L, self.cid)
        assetCid == LookupAssetByKey(L1, <<this.asset.asset_type, this.asset.owner>>)
        previous_asset_amount == PreviousAssetAmount(L1, assetCid)
        L2 == ArchivePrevious(L1, assetCid)
    IN  IF by # this.asset.owner THEN Abort(L, "Unauthorized")
        ELSE CreateAsset(L2, auth,
                 [this.asset EXCEPT !.amount = this.amount + previous_asset_amount])

\* A rejection that forgets to reverse the transfer: the recipient is kept.
RejectedTransfer_Unreversed(this) ==
    [asset |-> this.asset, recipient |-> this.recipient, amount |-> this.amount]

\* The contract Reject_Transfer creates.
RejectedTransfer(this) ==
    [asset |-> this.asset, recipient |-> this.asset.owner, amount |-> this.amount]

\* A rejection that moves the amount straight back into the sender's Asset,
\* the design the comment on Reject_Transfer rules out.
Reject_Transfer_Direct(L, self, by) ==
    LET this == self.payload
        auth == TransferSignatory(this) \cup {by}
        L1 == ArchiveTransfer(L, self.cid)
        assetCid == LookupAssetByKey(L1, <<this.asset.asset_type, this.asset.owner>>)
    IN  IF by # this.recipient THEN Abort(L, "Unauthorized")
        ELSE CreateAsset(ArchivePrevious(L1, assetCid), auth,
                 [this.asset EXCEPT
                      !.amount = this.amount + PreviousAssetAmount(L1, assetCid)])

\* choice Reject_Transfer, controller recipient (consuming)
Reject_Transfer(L, self, by) ==
    LET this == self.payload
        auth == TransferSignatory(this) \cup {by}
        L1 == ArchiveTransfer(L, self.cid)
    IN  IF by # this.recipient THEN Abort(L, "Unauthorized")
        ELSE CreateTransfer(L1, auth, RejectedTransfer(this))

\* Accept_Transfer without its assertMsg (asset.asset_type.fungible): an
\* existing Asset of any type is merged.
Accept_Transfer_AnyHolding(L, self, by) ==
    LET this == self.payload
        auth == TransferSignatory(this) \cup {by}
        L1 == ArchiveTransfer(L, self.cid)
        assetCid == LookupAssetByKey(L1, <<this.asset.asset_type, this.recipient>>)
    IN  IF by # this.recipient THEN Abort(L, "Unauthorized")
        ELSE CreateAsset(ArchivePrevious(L1, assetCid), auth,
                 [this.asset EXCEPT
                      !.amount = this.amount + PreviousAssetAmount(L1, assetCid),
                      !.owner = this.recipient])

\* choice Accept_Transfer, controller recipient (consuming)
Accept_Transfer(L, self, by) ==
    LET this == self.payload
        auth == TransferSignatory(this) \cup {by}
        L1 == ArchiveTransfer(L, self.cid)
        assetCid == LookupAssetByKey(L1, <<this.asset.asset_type, this.recipient>>)
        previous_asset_amount == PreviousAssetAmount(L1, assetCid)
        L2 == ArchivePrevious(L1, assetCid)
    IN  IF by # this.recipient THEN Abort(L, "Unauthorized")
        ELSE IF assetCid # None /\ ~FetchAsset(L1, assetCid).asset_type.fungible
        THEN Abort(L, "DuplicateNonFungibleHolding")
        ELSE CreateAsset(L2, auth,
                 [this.asset EXCEPT !.amount = this.amount + previous_asset_amount,
                                    !.owner = this.recipient])

\* ------------------------------------------- choices: AssetHoldingAccount

\* An invitation any account owner controls, resharable or not.
InviteController_Owner(this) == this.owner

\* controller (if resharable then owner else asset_type.issuer)
InviteController(this) == IF this.resharable THEN this.owner ELSE this.asset_type.issuer

\* Invite_New_Asset_Holder with the two lines the code has commented out: the
\* recipient must not have an AssetHoldingAccount for the asset type.
Invite_New_Asset_Holder_NewHolderOnly(L, self, by, recipient) ==
    LET this == self.payload
        auth == AccountSignatory(this) \cup {by}
    IN  IF by # InviteController(this) THEN Abort(L, "Unauthorized")
        ELSE IF LookupAccountByKey(L, <<this.asset_type, recipient>>) # None
        THEN Abort(L, "RecipientHasAccount")
        ELSE CreateProposal(L, auth, [account |-> this, recipient |-> recipient])

\* nonconsuming choice Invite_New_Asset_Holder
Invite_New_Asset_Holder(L, self, by, recipient) ==
    LET this == self.payload
        auth == AccountSignatory(this) \cup {by}
    IN  IF by # InviteController(this) THEN Abort(L, "Unauthorized")
        ELSE CreateProposal(L, auth, [account |-> this, recipient |-> recipient])

\* Airdrop without its first assertMsg (airdroppable || asset_type.issuer==owner).
Airdrop_IntoAnyAccount(L, self, by, amount) ==
    LET this == self.payload
        auth == AccountSignatory(this) \cup {by}
        assetCid == LookupAssetByKey(L, <<this.asset_type, this.owner>>)
    IN  IF by # this.asset_type.issuer THEN Abort(L, "Unauthorized")
        ELSE IF ~(this.asset_type.fungible \/ amount = 1)
        THEN Abort(L, "InvalidNonFungibleAmount")
        ELSE IF ~(this.asset_type.fungible \/ assetCid = None)
        THEN Abort(L, "NonFungibleSlotOccupied")
        ELSE CreateAsset(ArchivePrevious(L, assetCid), auth,
                 [asset_type |-> this.asset_type, owner |-> this.owner,
                  amount |-> amount + PreviousAssetAmount(L, assetCid)])

\* nonconsuming choice Airdrop, controller asset_type.issuer
Airdrop(L, self, by, amount) ==
    LET this == self.payload
        auth == AccountSignatory(this) \cup {by}
        assetCid == LookupAssetByKey(L, <<this.asset_type, this.owner>>)
        previous_asset_amount == PreviousAssetAmount(L, assetCid)
        L1 == ArchivePrevious(L, assetCid)
    IN  IF by # this.asset_type.issuer THEN Abort(L, "Unauthorized")
        ELSE IF ~(this.airdroppable \/ this.asset_type.issuer = this.owner)
        THEN Abort(L, "AirdropNotAccepted")
        ELSE IF ~(this.asset_type.fungible \/ amount = 1)
        THEN Abort(L, "InvalidNonFungibleAmount")
        ELSE IF ~(this.asset_type.fungible \/ assetCid = None)
        THEN Abort(L, "NonFungibleSlotOccupied")
        ELSE CreateAsset(L1, auth,
                 [asset_type |-> this.asset_type, owner |-> this.owner,
                  amount |-> amount + previous_asset_amount])

\* An AssetTransfer that carries the whole fetched amount, whatever amount
\* the sender named.
TransferOfFetched_WholeAmount(residual, auth, asset, recipient, amount) ==
    IF ~residual.ok THEN residual
    ELSE CreateTransfer(residual.ledger, auth,
             [asset |-> asset, recipient |-> recipient, amount |-> asset.amount])

\* The second create of Create_Transfer: the AssetTransfer carrying the
\* fetched Asset, made on the ledger the residual create left.
TransferOfFetched(residual, auth, asset, recipient, amount) ==
    IF ~residual.ok THEN residual
    ELSE CreateTransfer(residual.ledger, auth,
             [asset |-> asset, recipient |-> recipient, amount |-> amount])

\* A residual that forgets to take the transferred amount off.
CreateResidual_Undiminished(L, auth, asset, amount) == CreateAsset(L, auth, asset)

\* The first create of Create_Transfer: create asset with amount = asset.amount - amount
CreateResidual(L, auth, asset, amount) ==
    CreateAsset(L, auth, [asset EXCEPT !.amount = asset.amount - amount])

\* Create_Transfer without its second assertMsg (amount <= asset.amount).
Create_Transfer_NoAmountCheck(L, self, by, amount, recipient) ==
    LET this == self.payload
        auth == AccountSignatory(this) \cup {by}
        assetCid == LookupAssetByKey(L, <<this.asset_type, this.owner>>)
    IN  IF by # this.owner THEN Abort(L, "Unauthorized")
        ELSE IF assetCid = None THEN Abort(L, "InsufficientFunds")
        ELSE TransferOfFetched(
                 CreateResidual(ArchiveAsset(L, assetCid), auth,
                                FetchAsset(L, assetCid), amount),
                 auth, FetchAsset(L, assetCid), recipient, amount)

\* nonconsuming choice Create_Transfer, controller owner
Create_Transfer(L, self, by, amount, recipient) ==
    LET this == self.payload
        auth == AccountSignatory(this) \cup {by}
        assetCid == LookupAssetByKey(L, <<this.asset_type, this.owner>>)
    IN  IF by # this.owner THEN Abort(L, "Unauthorized")
        ELSE IF assetCid = None THEN Abort(L, "InsufficientFunds")
        ELSE LET asset == FetchAsset(L, assetCid)
             IN  IF ~(amount <= asset.amount) THEN Abort(L, "InsufficientFunds")
                 ELSE TransferOfFetched(
                          CreateResidual(ArchiveAsset(L, assetCid), auth, asset, amount),
                          auth, asset, recipient, amount)

\* ----------------------------------- choices: AssetHoldingAccountProposal

\* choice AssetHoldingAccountProposal_Accept, controller recipient (consuming)
AssetHoldingAccountProposal_Accept(L, self, by) ==
    LET this == self.payload
        auth == ProposalSignatory(this) \cup {by}
        L1 == ArchiveProposal(L, self.cid)
    IN  IF by # this.recipient THEN Abort(L, "Unauthorized")
        ELSE CreateAccount(L1, auth, [this.account EXCEPT !.owner = this.recipient])

\* choice AssetHoldingAccountProposal_Reject, controller recipient (consuming)
AssetHoldingAccountProposal_Reject(L, self, by) ==
    LET this == self.payload
        L1 == ArchiveProposal(L, self.cid)
    IN  IF by # this.recipient THEN Abort(L, "Unauthorized")
        ELSE Ret(L1, None)

\* ------------------------------------------------ exercise by contract id

\* The choices of the two templates whose contracts are exercised by id.
TransferChoices == {"Cancel_Transfer", "Reject_Transfer", "Accept_Transfer"}

ProposalChoices ==
    {"AssetHoldingAccountProposal_Accept", "AssetHoldingAccountProposal_Reject"}

\* The contract ids a submitter may name.
ContractIds == 1 .. MaxCid

IsActive(contracts, cid) == \E c \in contracts : c.cid = cid

ActiveContract(contracts, cid) == CHOOSE c \in contracts : c.cid = cid

\* exerciseCmd cid <choice> on an AssetTransfer: the contract must be active.
ExerciseTransfer(L, choice, cid, by) ==
    IF ~IsActive(L.transfers, cid) THEN Abort(L, "ContractNotActive")
    ELSE CASE choice = "Cancel_Transfer" ->
                  Cancel_Transfer(L, ActiveContract(L.transfers, cid), by)
           [] choice = "Reject_Transfer" ->
                  Reject_Transfer(L, ActiveContract(L.transfers, cid), by)
           [] choice = "Accept_Transfer" ->
                  Accept_Transfer(L, ActiveContract(L.transfers, cid), by)

\* exerciseCmd cid <choice> on an AssetHoldingAccountProposal.
ExerciseProposal(L, choice, cid, by) ==
    IF ~IsActive(L.proposals, cid) THEN Abort(L, "ContractNotActive")
    ELSE CASE choice = "AssetHoldingAccountProposal_Accept" ->
                  AssetHoldingAccountProposal_Accept(
                      L, ActiveContract(L.proposals, cid), by)
           [] choice = "AssetHoldingAccountProposal_Reject" ->
                  AssetHoldingAccountProposal_Reject(
                      L, ActiveContract(L.proposals, cid), by)

\* ------------------------------------- CreateAccountForm (React component)

\* The symbols a user types into the Symbol field.
Tickers == {"", "ALC"}

\* The component right after it is mounted: the useState initial values,
\* the props it was given (handleSubmit is optional) and whether the parent's
\* handleClose takes the form off the screen.
\* timers: the isLoading each pending setTimeout callback has captured;
\* calls: the props called so far; newAccounts: what addNewAccounts received.
MountedForm(hasHandleSubmit, closeUnmounts) ==
    [mounted |-> TRUE,
     isLoading |-> FALSE,
     ticker |-> "",
     isShareable |-> TRUE,
     isFungible |-> TRUE,
     isAirdroppable |-> TRUE,
     hasHandleSubmit |-> hasHandleSubmit,
     closeUnmounts |-> closeUnmounts,
     timers |-> <<>>,
     calls |-> <<>>,
     newAccounts |-> <<>>]

\* setLoading(value); the setter of an unmounted component changes nothing.
setLoading(f, value) == IF f.mounted THEN [f EXCEPT !.isLoading = value] ELSE f

\* toggleSubmitting = () => { setLoading(!isLoading) }, where isLoading is
\* the value of the render in which the function was created.
toggleSubmitting(f, isLoading) == setLoading(f, ~isLoading)

\* contractsContext.addNewAccounts({quantity: 0, ticker, issuer: 'me', ...})
addNewAccounts(f) ==
    [f EXCEPT !.newAccounts =
        Append(@, [quantity |-> 0, ticker |-> f.ticker, issuer |-> "me",
                   owner |-> "me", isShareable |-> f.isShareable,
                   isFungible |-> f.isFungible,
                   isAirdroppable |-> f.isAirdroppable])]

\* The prop handleClose: the parent is called and may unmount the form.
handleClose(f) ==
    [f EXCEPT !.calls = Append(@, "handleClose"),
              !.mounted = IF f.closeUnmounts THEN FALSE ELSE @]

\* handleSubmit && handleSubmit()
handleSubmit(f) ==
    IF f.hasHandleSubmit THEN [f EXCEPT !.calls = Append(@, "handleSubmit")] ELSE f

\* setTimeout(() => {...}, 1000): the callback is queued with the isLoading
\* of the render that created it.
setTimeout(f, isLoading) == [f EXCEPT !.timers = Append(@, isLoading)]

\* submit, the onClick handler of the Create button, as created by the
\* render that saw f.isLoading.
submit(f) ==
    setTimeout(toggleSubmitting(addNewAccounts(f), f.isLoading), f.isLoading)

\* The callback of the oldest pending timer: handleClose, handleSubmit,
\* toggleSubmitting, the last with the isLoading the callback captured.
TimerCallback(f) ==
    toggleSubmitting(
        handleSubmit(handleClose([f EXCEPT !.timers = Tail(@)])),
        Head(f.timers))

\* ----------------------------------------------------------------- state

\* The ledger: the active contracts of the four templates and the next
\* contract id.
VARIABLES ledger, form

vars == <<ledger, form>>

Init ==
    /\ ledger = EmptyLedger
    /\ form = MountedForm(FALSE, FALSE)

\* The asset types of the contracts on a ledger.
TypesOn(L) ==
    {c.payload.asset_type : c \in L.assets \cup L.accounts}
        \cup {c.payload.asset.asset_type : c \in L.transfers}
        \cup {c.payload.account.asset_type : c \in L.proposals}

\* What a model run keeps on its ledger: ids up to MaxCid, amounts up to
\* MaxAmount, and contracts of one asset type (no choice reads or writes a
\* contract of another asset type than its own).
WithinBounds(L) ==
    /\ L.nextCid <= MaxCid + 1
    /\ \A c \in L.assets : c.payload.amount <= MaxAmount
    /\ Cardinality(TypesOn(L)) <= 1

\* A ledger that keeps what an aborted Update did before it aborted.
AfterSubmit_Partial(L, res) == res.ledger

\* The ledger after a command: the Update's ledger, or the ledger as it was
\* when the Update aborted.
AfterSubmit(L, res) == IF res.ok THEN res.ledger ELSE L

\* submit: the command's Update is applied atomically; an abort commits nothing.
Submit(res) ==
    /\ res.ok => WithinBounds(res.ledger)
    /\ ledger' = AfterSubmit(ledger, res)
    /\ UNCHANGED form

\* ---------------------------------------------------------------- commands

\* createCmd Asset
CreateAssetCmd ==
    \E by \in Parties, ty \in AssetType, owner \in Parties, amount \in Amounts :
        Submit(CreateAsset(ledger, {by},
                   [asset_type |-> ty, owner |-> owner, amount |-> amount]))

\* createCmd AssetHoldingAccount
CreateAccountCmd ==
    \E by \in Parties, ty \in AssetType, owner \in Parties,
       airdroppable \in BOOLEAN, resharable \in BOOLEAN :
        Submit(CreateAccount(ledger, {by},
                   [asset_type |-> ty, owner |-> owner,
                    airdroppable |-> airdroppable, resharable |-> resharable]))

\* exerciseCmd on an AssetHoldingAccount
InviteCmd ==
    \E by \in Parties, self \in ledger.accounts, recipient \in Parties :
        Submit(Invite_New_Asset_Holder(ledger, self, by, recipient))

AirdropCmd ==
    \E by \in Parties, self \in ledger.accounts, amount \in Amounts :
        Submit(Airdrop(ledger, self, by, amount))

Create_TransferCmd ==
    \E by \in Parties, self \in ledger.accounts, amount \in Amounts,
       recipient \in Parties :
        Submit(Create_Transfer(ledger, self, by, amount, recipient))

\* exerciseCmd on an AssetTransfer
Cancel_TransferCmd ==
    \E by \in Parties, cid \in ContractIds :
        Submit(ExerciseTransfer(ledger, "Cancel_Transfer", cid, by))

Reject_TransferCmd ==
    \E by \in Parties, cid \in ContractIds :
        Submit(ExerciseTransfer(ledger, "Reject_Transfer", cid, by))

Accept_TransferCmd ==
    \E by \in Parties, cid \in ContractIds :
        Submit(ExerciseTransfer(ledger, "Accept_Transfer", cid, by))

\* exerciseCmd on an AssetHoldingAccountProposal
ProposalAcceptCmd ==
    \E by \in Parties, cid \in ContractIds :
        Submit(ExerciseProposal(ledger, "AssetHoldingAccountProposal_Accept", cid, by))

ProposalRejectCmd ==
    \E by \in Parties, cid \in ContractIds :
        Submit(ExerciseProposal(ledger, "AssetHoldingAccountProposal_Reject", cid, by))

Next ==
    \/ CreateAssetCmd
    \/ CreateAccountCmd
    \/ InviteCmd
    \/ AirdropCmd
    \/ Create_TransferCmd
    \/ Cancel_TransferCmd
    \/ Reject_TransferCmd
    \/ Accept_TransferCmd
    \/ ProposalAcceptCmd
    \/ ProposalRejectCmd

Spec == Init /\ [][Next]_vars

\* ------------------------------------------ the form: events and timers

\* The form as its parent may mount it.
FormInit ==
    /\ ledger = EmptyLedger
    /\ \E hasHandleSubmit \in BOOLEAN, closeUnmounts \in BOOLEAN :
           form = MountedForm(hasHandleSubmit, closeUnmounts)

\* onChange of the Symbol field: onTextChange -> setTicker(event.target.value)
onTextChange ==
    /\ form.mounted
    /\ \E value \in Tickers : form' = [form EXCEPT !.ticker = value]
    /\ UNCHANGED ledger

\* onChange of the Reshareable switch
setShareable ==
    /\ form.mounted
    /\ \E checked \in BOOLEAN : form' = [form EXCEPT !.isShareable = checked]
    /\ UNCHANGED ledger

\* onChange of the Airdroppable switch
setIsAirdroppable ==
    /\ form.mounted
    /\ \E checked \in BOOLEAN : form' = [form EXCEPT !.isAirdroppable = checked]
    /\ UNCHANGED ledger

\* onChange of the Fungible switch
setFungible ==
    /\ form.mounted
    /\ \E checked \in BOOLEAN : form' = [form EXCEPT !.isFungible = checked]
    /\ UNCHANGED ledger

\* A click on the Create button; a LoadingButton that is loading is disabled.
ClickCreate ==
    /\ form.mounted
    /\ ~form.isLoading
    /\ form' = submit(form)
    /\ UNCHANGED ledger

\* The 1-second timer fires.
TimerFires ==
    /\ form.timers # <<>>
    /\ form' = TimerCallback(form)
    /\ UNCHANGED ledger

\* The parent takes the form off the screen.
Unmount ==
    /\ form.mounted
    /\ form' = [form EXCEPT !.mounted = FALSE]
    /\ UNCHANGED ledger

FormNext ==
    \/ onTextChange
    \/ setShareable
    \/ setIsAirdroppable
    \/ setFungible
    \/ ClickCreate
    \/ TimerFires
    \/ Unmount

FormSpec == FormInit /\ [][FormNext]_vars

\* ------------------------------------------------------ reading a ledger

\* The active Assets of an asset type held by a party.
AssetsAt(L, ty, party) ==
    {c \in L.assets : c.payload.asset_type = ty /\ c.payload.owner = party}

AccountsAt(L, ty, party) ==
    {c \in L.accounts : c.payload.asset_type = ty /\ c.payload.owner = party}

\* A party's position in an asset type: the Asset's amount, 0 without Asset.
Position(L, ty, party) ==
    IF AssetsAt(L, ty, party) = {} THEN 0
    ELSE (CHOOSE c \in AssetsAt(L, ty, party) : TRUE).payload.amount

\* The active AssetTransfer with a contract id.
TransferAt(L, cid) == CHOOSE c \in L.transfers : c.cid = cid

\* ----------------------------------------------------------------- C1

\* C1: key uniqueness. In every reachable ledger, no two active Assets share
\* an (asset_type, owner) key and no two active AssetHoldingAccounts do.
C1_KeyUniqueness ==
    /\ \A c1 \in ledger.assets, c2 \in ledger.assets :
           AssetKey(c1.payload) = AssetKey(c2.payload) => c1 = c2
    /\ \A c1 \in ledger.accounts, c2 \in ledger.accounts :
           AccountKey(c1.payload) = AccountKey(c2.payload) => c1 = c2

\* A ledger with an Asset and an account at one key, where a second create at
\* the key (by both signatories) is refused for the key alone.
C1_Witness ==
    \E c \in ledger.assets, acc \in ledger.accounts :
        /\ AssetKey(c.payload) = AccountKey(acc.payload)
        /\ CreateAsset(ledger, AssetSignatory(c.payload), c.payload).err = "DuplicateKey"
        /\ CreateAccount(ledger, AccountSignatory(acc.payload), acc.payload).err
               = "DuplicateKey"

\* ----------------------------------------------------------------- C2

\* C2: fungibility invariant. Every active Asset of a fungible type has an
\* amount above 0, and every active Asset of a non-fungible type has amount
\* 0 or 1, whichever command created it.
C2_FungibilityInvariant ==
    \A c \in ledger.assets :
        /\ c.payload.asset_type.fungible => c.payload.amount > 0
        /\ ~c.payload.asset_type.fungible => c.payload.amount \in {0, 1}

\* An Asset left by Create_Transfer beside its transfer, where a transfer of
\* the whole position would leave no valid Asset of a fungible type.
C2_Witness ==
    \E c \in ledger.assets, t \in ledger.transfers :
        /\ t.payload.asset.asset_type = c.payload.asset_type
        /\ t.payload.asset.owner = c.payload.owner
        /\ c.payload.amount = t.payload.asset.amount - t.payload.amount
        /\ c.payload.amount > 0

\* ----------------------------------------------------------------- C3

\* Create_Transfer by the account owner, then Accept_Transfer of the new
\* transfer by its recipient.
TransferThenAccept(L, acc, amount, recipient) ==
    LET created == Create_Transfer(L, acc, acc.payload.owner, amount, recipient)
    IN  IF ~created.ok THEN created
        ELSE Accept_Transfer(created.ledger, TransferAt(created.ledger, created.out),
                             recipient)

\* The positions of sender and recipient after a transfer that was created
\* and accepted are b - a and r + a.
Conserved(L, acc, amount, recipient) ==
    LET ty == acc.payload.asset_type
        sender == acc.payload.owner
        done == TransferThenAccept(L, acc, amount, recipient)
    IN  done.ok =>
            /\ Position(done.ledger, ty, sender) = Position(L, ty, sender) - amount
            /\ Position(done.ledger, ty, recipient)
                   = Position(L, ty, recipient) + amount

\* C3 as stated: for every sender, amount and recipient.
C3_ConservationAnyRecipient ==
    \A acc \in ledger.accounts, amount \in Amounts, recipient \in Parties :
        Conserved(ledger, acc, amount, recipient)

\* C3, amended: conservation over Create_Transfer followed by Accept_Transfer.
\* For every sender position b, amount a and position r of a recipient other
\* than the sender, the sender ends with b - a and the recipient with r + a.
C3_Conservation ==
    \A acc \in ledger.accounts, amount \in Amounts, recipient \in Parties :
        recipient # acc.payload.owner => Conserved(ledger, acc, amount, recipient)

\* A sender and another party who already holds a position, with a transfer
\* of a positive amount that is created and accepted.
C3_Witness ==
    \E acc \in ledger.accounts, amount \in 1 .. MaxAmount, recipient \in Parties :
        /\ recipient # acc.payload.owner
        /\ Position(ledger, acc.payload.asset_type, recipient) > 0
        /\ TransferThenAccept(ledger, acc, amount, recipient).ok

\* ----------------------------------------------------------------- C4

\* C4: privacy of rejection. A successful Reject_Transfer archives the
\* rejected transfer, creates one new AssetTransfer, and leaves the active
\* Assets (and accounts and proposals) as they were; in particular it
\* creates no Asset owned by the rejecting party.
C4_RejectCreatesNoAsset ==
    \A t \in ledger.transfers, by \in Parties :
        LET res == Reject_Transfer(ledger, t, by)
        IN  res.ok =>
                /\ res.ledger.assets = ledger.assets
                /\ res.ledger.accounts = ledger.accounts
                /\ res.ledger.proposals = ledger.proposals
                /\ t \notin res.ledger.transfers
                /\ \E new \in res.ledger.transfers :
                       /\ new \notin ledger.transfers
                       /\ new.cid = res.out
                       /\ res.ledger.transfers = (ledger.transfers \ {t}) \cup {new}

\* A transfer whose recipient is not its sender and holds no Asset of the
\* type, and who rejects it.
C4_Witness ==
    \E t \in ledger.transfers :
        /\ t.payload.recipient # t.payload.asset.owner
        /\ AssetsAt(ledger, t.payload.asset.asset_type, t.payload.recipient) = {}
        /\ ledger.assets # {}
        /\ Reject_Transfer(ledger, t, t.payload.recipient).ok

\* ----------------------------------------------------------------- C5

\* The transfer a successful Create_Transfer by the account owner creates.
CreatedTransfer(L, acc, amount, recipient) ==
    LET created == Create_Transfer(L, acc, acc.payload.owner, amount, recipient)
    IN  TransferAt(created.ledger, created.out)

\* n Reject_Transfer in a row, each by the recipient of the transfer the
\* previous one created.
RECURSIVE Rejections(_, _, _)
Rejections(L, t, n) ==
    IF n = 0 THEN [ok |-> TRUE, ledger |-> L, transfer |-> t]
    ELSE LET res == Reject_Transfer(L, t, t.payload.recipient)
         IN  IF ~res.ok THEN [ok |-> FALSE, ledger |-> L, transfer |-> t]
             ELSE Rejections(res.ledger, TransferAt(res.ledger, res.out), n - 1)

\* Rejections of a freshly created transfer are counted up to MaxRejects.
MaxRejects == 3

C6_RejectThenAcceptRestores ==
    \A acc \in ledger.accounts, amount \in 0 .. MaxAmount, recipient \in Parties :
        LET ty == acc.payload.asset_type
            sender == acc.payload.owner
            created == Create_Transfer(ledger, acc, sender, amount, recipient)
            rejected == Reject_Transfer(created.ledger,
                            CreatedTransfer(ledger, acc, amount, recipient), recipient)
            accepted == Accept_Transfer(rejected.ledger,
                            TransferAt(rejected.ledger, rejected.out), sender)
        IN  (created.ok /\ recipient # sender) =>
                /\ rejected.ok
                /\ AssetsAt(created.ledger, ty, recipient) = AssetsAt(ledger, ty, recipient)
                /\ AssetsAt(rejected.ledger, ty, recipient) = AssetsAt(ledger, ty, recipient)
                /\ accepted.ok
                /\ Position(accepted.ledger, ty, sender) = Position(ledger, ty, sender)

\* ----------------------------------------------------------------- C7

\* C7: full-balance transfer. Create_Transfer by the owner of a fungible
\* position for the whole amount of the active Asset succeeds, creates the
\* AssetTransfer, archives the old Asset and leaves the sender no Asset.
C7_FullBalanceTransfer ==
    \A acc \in ledger.accounts, recipient \in Parties :
        LET ty == acc.payload.asset_type
            sender == acc.payload.owner
            res == Create_Transfer(ledger, acc, sender,
                                   Position(ledger, ty, sender), recipient)
        IN  (ty.fungible /\ AssetsAt(ledger, ty, sender) # {}) =>
                /\ res.ok
                /\ \E t \in res.ledger.transfers :
                       t.cid = res.out /\ t.payload.amount = Position(ledger, ty, sender)
                /\ AssetsAt(res.ledger, ty, sender) = {}

\* ----------------------------------------------------------------- C8

\* The active contracts a party sees: those it signs or observes.
Visible(L, party) ==
    {c \in L.assets : party \in AssetSignatory(c.payload)}
        \cup {c \in L.transfers :
                  party \in TransferSignatory(c.payload) \cup TransferObserver(c.payload)}
        \cup {c \in L.accounts : party \in AccountSignatory(c.payload)}
        \cup {c \in L.proposals :
                  party \in ProposalSignatory(c.payload) \cup ProposalObserver(c.payload)}

\* The same ledger with another amount in a party's Asset.
WithBalance(L, ty, party, balance) ==
    [L EXCEPT !.assets =
        {IF c \in AssetsAt(L, ty, party)
         THEN [c EXCEPT !.payload.amount = balance] ELSE c : c \in @}]

\* What the recipient sees over Create_Transfer followed by its own
\* Reject_Transfer: its contracts after the first, the transfer the second
\* creates, and its contracts after the second.
RecipientView(L, acc, amount, recipient) ==
    LET created == Create_Transfer(L, acc, acc.payload.owner, amount, recipient)
        rejected == Reject_Transfer(created.ledger,
                        TransferAt(created.ledger, created.out), recipient)
    IN  <<Visible(created.ledger, recipient),
          TransferAt(rejected.ledger, rejected.out),
          Visible(rejected.ledger, recipient)>>

\* C8: sender balance confidentiality. Two runs of Create_Transfer followed by
\* Reject_Transfer that differ only in the sender's balance and use the same
\* amount show the recipient (neither issuer nor sender) the same records.
C8_BalanceConfidential ==
    \A acc \in ledger.accounts, amount \in 0 .. MaxAmount, recipient \in Parties,
       balance \in 0 .. MaxAmount :
        LET ty == acc.payload.asset_type
            sender == acc.payload.owner
            other == WithBalance(ledger, ty, sender, balance)
        IN  (/\ recipient \notin {ty.issuer, sender}
             /\ AssetEnsure([asset_type |-> ty, owner |-> sender, amount |-> balance])
             /\ Create_Transfer(ledger, acc, sender, amount, recipient).ok
             /\ Create_Transfer(other, acc, sender, amount, recipient).ok)
            => RecipientView(ledger, acc, amount, recipient)
                   = RecipientView(other, acc, amount, recipient)

\* ----------------------------------------------------------------- C9

\* The ledgers one successful Create_Transfer away from a ledger, and the
\* ledger itself.
AfterOneTransfer(L) ==
    {L} \cup
    {Create_Transfer(L, acc, acc.payload.owner, amount, recipient).ledger :
        <<acc, amount, recipient>> \in
            {x \in L.accounts \X Amounts \X Parties :
                Create_Transfer(L, x[1], x[1].payload.owner, x[2], x[3]).ok}}

\* C9: Cancel_Transfer has no business precondition. On every active
\* AssetTransfer, submitted by asset.owner, it succeeds, archives the transfer
\* and leaves exactly one Asset at (asset_type, asset.owner), of the transfer
\* amount plus the amount previously at the key.
C9_CancelAlwaysSucceeds ==
    \A L \in AfterOneTransfer(ledger) :
        \A t \in L.transfers :
            LET ty == t.payload.asset.asset_type
                owner == t.payload.asset.owner
                res == Cancel_Transfer(L, t, owner)
            IN  /\ res.ok
                /\ t \notin res.ledger.transfers
                /\ Cardinality(AssetsAt(res.ledger, ty, owner)) = 1
                /\ Position(res.ledger, ty, owner)
                       = t.payload.amount + Position(L, ty, owner)

\* ----------------------------------------------------------------- C10

\* C10: insufficient funds. Create_Transfer submitted by the account owner
\* fails with "Not enough funds in the account" when there is no active Asset
\* at (asset_type, owner) or the amount exceeds that Asset's amount; submitted
\* by anyone it fails, and the ledger after the command is the ledger before
\* it: no Asset archived, no AssetTransfer created.
C10_InsufficientFunds ==
    \A acc \in ledger.accounts, by \in Parties, amount \in Amounts,
       recipient \in Parties :
        LET ty == acc.payload.asset_type
            owner == acc.payload.owner
            res == Create_Transfer(ledger, acc, by, amount, recipient)
        IN  (AssetsAt(ledger, ty, owner) = {} \/ amount > Position(ledger, ty, owner))
            =>  /\ ~res.ok
                /\ by = owner => res.err = "InsufficientFunds"
                /\ AfterSubmit(ledger, res) = ledger

\* An account whose owner holds an Asset and names a larger amount, beside an
\* account of the same type whose owner holds no Asset.
C10_Witness ==
    \E acc \in ledger.accounts, empty \in ledger.accounts, amount \in Amounts :
        /\ AssetsAt(ledger, acc.payload.asset_type, acc.payload.owner) # {}
        /\ amount > Position(ledger, acc.payload.asset_type, acc.payload.owner)
        /\ AssetsAt(ledger, empty.payload.asset_type, empty.payload.owner) = {}
        /\ ~Create_Transfer(ledger, acc, acc.payload.owner, amount, "Bob").ok
        /\ ~Create_Transfer(ledger, empty, empty.payload.owner, 1, "Bob").ok

\* ---------------------------------------------------------------- C11

\* C11: duplicate non-fungible holding. Accept_Transfer by the recipient
\* fails with "The recipient already owns this type of non-fungible asset"
\* whenever an active Asset of any amount, 0 included, is at
\* (asset_type, recipient) and the type is non-fungible, and the ledger after
\* it is the ledger before it: the transfer stays active and the recipient's
\* Asset is not archived. When no Asset is at the key, or the type is
\* fungible, that assertion does not fail.
C11_DuplicateNonFungibleHolding ==
    \A t \in ledger.transfers :
        LET ty == t.payload.asset.asset_type
            recipient == t.payload.recipient
            res == Accept_Transfer(ledger, t, recipient)
            after == AfterSubmit(ledger, res)
        IN  IF ~ty.fungible /\ AssetsAt(ledger, ty, recipient) # {}
            THEN /\ ~res.ok
                 /\ res.err = "DuplicateNonFungibleHolding"
                 /\ t \in after.transfers
                 /\ AssetsAt(after, ty, recipient) = AssetsAt(ledger, ty, recipient)
                 /\ after = ledger
            ELSE res.err # "DuplicateNonFungibleHolding"

\* A transfer of a non-fungible type whose recipient holds an Asset of amount
\* 0 of that type, refused.
C11_Witness ==
    \E t \in ledger.transfers :
        /\ ~t.payload.asset.asset_type.fungible
        /\ \E c \in AssetsAt(ledger, t.payload.asset.asset_type, t.payload.recipient) :
               c.payload.amount = 0
        /\ ~Accept_Transfer(ledger, t, t.payload.recipient).ok
        /\ t.payload.amount = 1

\* ---------------------------------------------------------------- C12

\* The three assertMsg conditions of Airdrop on an account.
AirdropGuard(L, acc, amount) ==
    LET this == acc.payload
    IN  /\ this.airdroppable \/ this.asset_type.issuer = this.owner
        /\ this.asset_type.fungible \/ amount = 1
        /\ this.asset_type.fungible \/ AssetsAt(L, this.asset_type, this.owner) = {}

\* C12: airdrop guard. Airdrop(amount) on an account, submitted by any party,
\* succeeds only if (airdroppable or issuer = owner) and (fungible or
\* amount = 1) and (fungible or no active Asset at (asset_type, owner)); when
\* one of the three is false the command fails and the ledger is unchanged.
C12_AirdropGuard ==
    \A acc \in ledger.accounts, by \in Parties, amount \in Amounts :
        LET res == Airdrop(ledger, acc, by, amount)
        IN  /\ res.ok => AirdropGuard(ledger, acc, amount)
            /\ ~AirdropGuard(ledger, acc, amount) =>
                   ~res.ok /\ AfterSubmit(ledger, res) = ledger

\* An account of another party than the issuer that is not airdroppable, into
\* which the issuer's Airdrop of 1 fails.
C12_Witness ==
    \E acc \in ledger.accounts :
        /\ ~acc.payload.airdroppable
        /\ acc.payload.owner # acc.payload.asset_type.issuer
        /\ ~Airdrop(ledger, acc, acc.payload.asset_type.issuer, 1).ok

\* ---------------------------------------------------------------- C13

\* Two airdrops by the issuer into one account, one after the other.
AirdropTwice(L, acc, a1, a2) ==
    LET first == Airdrop(L, acc, acc.payload.asset_type.issuer, a1)
    IN  IF ~first.ok THEN first
        ELSE Airdrop(first.ledger, acc, acc.payload.asset_type.issuer, a2)

\* C13: airdrop merge. A successful Airdrop(a) into a fungible account whose
\* position is b (0 without Asset) leaves exactly one active Asset at
\* (asset_type, owner), of amount a + b; two successful airdrops a1, a2 into
\* an empty account leave a single Asset of amount a1 + a2.
C13_AirdropMerge ==
    \A acc \in ledger.accounts, by \in Parties, a1 \in Amounts, a2 \in Amounts :
        LET ty == acc.payload.asset_type
            owner == acc.payload.owner
            res == Airdrop(ledger, acc, by, a1)
            twice == AirdropTwice(ledger, acc, a1, a2)
        IN  ty.fungible =>
                /\ res.ok =>
                       /\ Cardinality(AssetsAt(res.ledger, ty, owner)) = 1
                       /\ Position(res.ledger, ty, owner) = a1 + Position(ledger, ty, owner)
                /\ (twice.ok /\ AssetsAt(ledger, ty, owner) = {}) =>
                       /\ Cardinality(AssetsAt(twice.ledger, ty, owner)) = 1
                       /\ Position(twice.ledger, ty, owner) = a1 + a2

\* A fungible account that holds an Asset, in which an Airdrop of 1 has merged
\* with the amount there.
C13_Witness ==
    \E acc \in ledger.accounts :
        /\ acc.payload.asset_type.fungible
        /\ Position(ledger, acc.payload.asset_type, acc.payload.owner) > 0
        /\ LET res == Airdrop(ledger, acc, acc.payload.asset_type.issuer, 1)
           IN  /\ res.ok
               /\ Position(res.ledger, acc.payload.asset_type, acc.payload.owner)
                      = 1 + Position(ledger, acc.payload.asset_type, acc.payload.owner)

\* ---------------------------------------------------------------- C14

\* The outcomes of the commands the parties can submit on a ledger.
Results(L) ==
    {CreateAsset(L, {by}, [asset_type |-> ty, owner |-> owner, amount |-> amount]) :
         <<by, ty, owner, amount>> \in Parties \X AssetType \X Parties \X Amounts}
    \cup {CreateAccount(L, {by}, [asset_type |-> ty, owner |-> owner,
                                  airdroppable |-> ad, resharable |-> rs]) :
         <<by, ty, owner, ad, rs>> \in
             Parties \X AssetType \X Parties \X BOOLEAN \X BOOLEAN}
    \cup {Invite_New_Asset_Holder(L, self, by, recipient) :
         <<by, self, recipient>> \in Parties \X L.accounts \X Parties}
    \cup {Airdrop(L, self, by, amount) :
         <<by, self, amount>> \in Parties \X L.accounts \X Amounts}
    \cup {Create_Transfer(L, self, by, amount, recipient) :
         <<by, self, amount, recipient>> \in
             Parties \X L.accounts \X Amounts \X Parties}
    \cup {ExerciseTransfer(L, choice, cid, by) :
         <<choice, cid, by>> \in TransferChoices \X ContractIds \X Parties}
    \cup {ExerciseProposal(L, choice, cid, by) :
         <<choice, cid, by>> \in ProposalChoices \X ContractIds \X Parties}

Credited(L, after, ty) ==
    {p \in Parties : Position(after, ty, p) # Position(L, ty, p)}

\* C15: a transfer settles exactly once. For every active AssetTransfer and
\* every two choices among Accept_Transfer, Reject_Transfer and
\* Cancel_Transfer submitted on it one after the other by any parties: when
\* the first succeeds the transfer is archived, at most one position has
\* changed, by the transfer's amount, and the second fails, leaving the
\* ledger as the first left it.
C15_SettlesOnce ==
    \A t \in ledger.transfers, c1 \in TransferChoices, c2 \in TransferChoices,
       by1 \in Parties, by2 \in Parties :
        LET ty == t.payload.asset.asset_type
            first == ExerciseTransfer(ledger, c1, t.cid, by1)
            second == ExerciseTransfer(AfterSubmit(ledger, first), c2, t.cid, by2)
        IN  first.ok =>
                /\ ~IsActive(first.ledger.transfers, t.cid)
                /\ Cardinality(Credited(ledger, first.ledger, ty)) <= 1
                /\ \A p \in Credited(ledger, first.ledger, ty) :
                       Position(first.ledger, ty, p)
                           = Position(ledger, ty, p) + t.payload.amount
                /\ ~second.ok
                /\ second.err = "ContractNotActive"
                /\ AfterSubmit(first.ledger, second) = first.ledger

\* A transfer of a positive amount that its recipient can accept and its
\* sender can cancel: either succeeds first, and the other then fails.
C15_Witness ==
    \E t \in ledger.transfers :
        LET accepted == ExerciseTransfer(ledger, "Accept_Transfer", t.cid,
                                         t.payload.recipient)
            cancelled == ExerciseTransfer(ledger, "Cancel_Transfer", t.cid,
                                          t.payload.asset.owner)
        IN  /\ t.payload.amount > 0
            /\ t.payload.recipient # t.payload.asset.owner
            /\ accepted.ok
            /\ cancelled.ok
            /\ ~ExerciseTransfer(accepted.ledger, "Cancel_Transfer", t.cid,
                                 t.payload.asset.owner).ok
            /\ ~ExerciseTransfer(cancelled.ledger, "Accept_Transfer", t.cid,
                                 t.payload.recipient).ok

\* ---------------------------------------------------------------- C16

\* Two proposals to one recipient for one asset type, each of which the
\* recipient could accept on this ledger.
RacingProposals(L) ==
    {pair \in L.proposals \X L.proposals :
        /\ pair[1].cid # pair[2].cid
        /\ pair[1].payload.recipient = pair[2].payload.recipient
        /\ pair[1].payload.account.asset_type = pair[2].payload.account.asset_type
        /\ \A i \in {1, 2} :
               ExerciseProposal(L, "AssetHoldingAccountProposal_Accept",
                                pair[i].cid, pair[i].payload.recipient).ok}

\* Two createCmd Asset by one party at one key, each of which would succeed on
\* this ledger.
RacingAssets(L) ==
    {pair \in (Parties \X AssetType \X Parties \X Amounts)
                  \X (Parties \X AssetType \X Parties \X Amounts) :
        /\ pair[1][2] = pair[2][2] /\ pair[1][3] = pair[2][3]
        /\ \A i \in {1, 2} :
               CreateAsset(L, {pair[i][1]},
                   [asset_type |-> pair[i][2], owner |-> pair[i][3],
                    amount |-> pair[i][4]]).ok}

\* C16: racing creations at one key. Of two submissions that would each
\* create an AssetHoldingAccount (the recipient accepting two proposals for
\* one asset type) or an Asset at one (asset_type, owner) key, in either
\* order the first succeeds and the second fails on the duplicate key,
\* leaving its proposal active and one contract at the key.
C16_RacingCreations ==
    /\ \A pair \in RacingProposals(ledger) :
           LET recipient == pair[1].payload.recipient
               ty == pair[1].payload.account.asset_type
               first == ExerciseProposal(ledger, "AssetHoldingAccountProposal_Accept",
                                         pair[1].cid, recipient)
               second == ExerciseProposal(first.ledger,
                                          "AssetHoldingAccountProposal_Accept",
                                          pair[2].cid, recipient)
               after == AfterSubmit(first.ledger, second)
           IN  /\ first.ok
               /\ ~second.ok
               /\ second.err = "DuplicateKey"
               /\ pair[2] \in after.proposals
               /\ pair[1] \notin after.proposals
               /\ Cardinality(AccountsAt(after, ty, recipient)) = 1
    /\ \A pair \in RacingAssets(ledger) :
           LET first == CreateAsset(ledger, {pair[1][1]},
                            [asset_type |-> pair[1][2], owner |-> pair[1][3],
                             amount |-> pair[1][4]])
               second == CreateAsset(first.ledger, {pair[2][1]},
                             [asset_type |-> pair[2][2], owner |-> pair[2][3],
                              amount |-> pair[2][4]])
               after == AfterSubmit(first.ledger, second)
           IN  /\ first.ok
               /\ ~second.ok
               /\ second.err = "DuplicateKey"
               /\ Cardinality(AssetsAt(after, pair[1][2], pair[1][3])) = 1

\* Two proposals to one recipient for one asset type, both outstanding, the
\* recipient without an account.
C16_Witness ==
    \E pair \in RacingProposals(ledger) :
        /\ AccountsAt(ledger, pair[1].payload.account.asset_type,
                      pair[1].payload.recipient) = {}
        /\ ~ExerciseProposal(
               ExerciseProposal(ledger, "AssetHoldingAccountProposal_Accept",
                                pair[1].cid, pair[1].payload.recipient).ledger,
               "AssetHoldingAccountProposal_Accept",
               pair[2].cid, pair[2].payload.recipient).ok

\* ---------------------------------------------------------------- C17

\* The proposal a successful Invite_New_Asset_Holder has created.
ProposalAt(L, cid) == CHOOSE c \in L.proposals : c.cid = cid

\* C17: permissive invite, rejected accept. Invite_New_Asset_Holder by its
\* controller succeeds and creates a proposal even when the recipient has an
\* active AssetHoldingAccount for the asset type; the recipient's
\* AssetHoldingAccountProposal_Accept on such a proposal (the new one and any
\* active one) fails on the duplicate key, and the accounts and the proposal
\* are what they were.
C17_PermissiveInvite ==
    /\ \A acc \in ledger.accounts, recipient \in Parties :
           LET ty == acc.payload.asset_type
               invited == Invite_New_Asset_Holder(ledger, acc,
                              InviteController(acc.payload), recipient)
               accepted == ExerciseProposal(invited.ledger,
                               "AssetHoldingAccountProposal_Accept",
                               invited.out, recipient)
           IN  AccountsAt(ledger, ty, recipient) # {} =>
                   /\ invited.ok
                   /\ IsActive(invited.ledger.proposals, invited.out)
                   /\ ProposalAt(invited.ledger, invited.out).payload
                          = [account |-> acc.payload, recipient |-> recipient]
                   /\ invited.ledger.accounts = ledger.accounts
                   /\ ~accepted.ok
                   /\ accepted.err = "DuplicateKey"
                   /\ AfterSubmit(invited.ledger, accepted) = invited.ledger
    /\ \A p \in ledger.proposals :
           LET accepted == ExerciseProposal(ledger,
                               "AssetHoldingAccountProposal_Accept",
                               p.cid, p.payload.recipient)
           IN  AccountsAt(ledger, p.payload.account.asset_type,
                          p.payload.recipient) # {} =>
                   /\ ~accepted.ok
                   /\ accepted.err = "DuplicateKey"
                   /\ AfterSubmit(ledger, accepted) = ledger

\* A proposal to a party other than the inviting owner that already has an
\* account for the asset type; the party's acceptance fails.
C17_Witness ==
    \E p \in ledger.proposals :
        /\ p.payload.recipient # p.payload.account.owner
        /\ AccountsAt(ledger, p.payload.account.asset_type, p.payload.recipient) # {}
        /\ ~ExerciseProposal(ledger, "AssetHoldingAccountProposal_Accept",
                             p.cid, p.payload.recipient).ok

\* ---------------------------------------------------------------- C18

\* A step that adds an account of a party other than the issuer is that
\* party's AssetHoldingAccountProposal_Accept of a proposal naming it, and
\* the account has the asset type and flags of the inviting account.
AccountsOnlyByAcceptance ==
    \A acc \in ledger'.accounts \ ledger.accounts :
        acc.payload.owner # acc.payload.asset_type.issuer =>
            \E p \in ledger.proposals :
                LET accepted == ExerciseProposal(ledger,
                                    "AssetHoldingAccountProposal_Accept",
                                    p.cid, acc.payload.owner)
                IN  /\ p.payload.recipient = acc.payload.owner
                    /\ accepted.ok
                    /\ ledger' = accepted.ledger
                    /\ p \notin ledger'.proposals
                    /\ \E inviting \in ledger.accounts :
                           /\ inviting.payload = p.payload.account
                           /\ acc.payload.asset_type = inviting.payload.asset_type
                           /\ acc.payload.airdroppable = inviting.payload.airdroppable
                           /\ acc.payload.resharable = inviting.payload.resharable

\* Nobody but the recipient can accept a proposal, and a proposal the
\* recipient rejects adds no account and can no longer be accepted.
OnlyRecipientBinds ==
    \A p \in ledger.proposals :
        LET rejected == ExerciseProposal(ledger, "AssetHoldingAccountProposal_Reject",
                                         p.cid, p.payload.recipient)
        IN  /\ \A by \in Parties \ {p.payload.recipient} :
                   ~ExerciseProposal(ledger, "AssetHoldingAccountProposal_Accept",
                                     p.cid, by).ok
            /\ rejected.ok
            /\ rejected.ledger.accounts = ledger.accounts
            /\ \A by \in Parties :
                   ~ExerciseProposal(rejected.ledger,
                                     "AssetHoldingAccountProposal_Accept", p.cid, by).ok

\* C18: no binding without consent. An active AssetHoldingAccount whose owner
\* is not the issuer comes only from that owner's
\* AssetHoldingAccountProposal_Accept of a proposal naming it as recipient,
\* with the asset_type, airdroppable and resharable of the inviting account;
\* a rejected proposal never yields an account.
C18_NoBindingWithoutConsent ==
    []OnlyRecipientBinds /\ [][AccountsOnlyByAcceptance]_vars

\* An account of a party other than the issuer, beside the issuer's own.
C18_Witness ==
    \E acc \in ledger.accounts, inviting \in ledger.accounts :
        /\ acc.payload.owner # acc.payload.asset_type.issuer
        /\ inviting.payload.owner = inviting.payload.asset_type.issuer
        /\ acc.payload = [inviting.payload EXCEPT !.owner = acc.payload.owner]

\* ---------------------------------------------------------------- C19

\* C19: invite authorization. Invite_New_Asset_Holder on an account succeeds
\* only when submitted by the owner if resharable is true and by
\* asset_type.issuer if it is false; the owner of a non-resharable account
\* who is not the issuer cannot create a proposal from it, for any recipient.
C19_InviteAuthorization ==
    \A acc \in ledger.accounts, by \in Parties, recipient \in Parties :
        LET this == acc.payload
            res == Invite_New_Asset_Holder(ledger, acc, by, recipient)
        IN  /\ res.ok => (/\ this.resharable => by = this.owner
                          /\ ~this.resharable => by = this.asset_type.issuer
                          /\ res.ledger.proposals \ ledger.proposals
                                 = {Contract(res.out,
                                        [account |-> this, recipient |-> recipient])})
            /\ ~res.ok => (/\ AfterSubmit(ledger, res) = ledger
                           /\ this.resharable => by # this.owner
                           /\ ~this.resharable => by # this.asset_type.issuer)
            /\ (~this.resharable /\ by = this.owner /\ by # this.asset_type.issuer)
                   => ~res.ok

\* A non-resharable account of a party other than the issuer: the owner's
\* invitation fails, the issuer's succeeds.
C19_Witness ==
    \E acc \in ledger.accounts :
        /\ ~acc.payload.resharable
        /\ acc.payload.owner # acc.payload.asset_type.issuer
        /\ ~Invite_New_Asset_Holder(ledger, acc, acc.payload.owner, "Bob").ok
        /\ Invite_New_Asset_Holder(ledger, acc, acc.payload.asset_type.issuer, "Bob").ok

\* ---------------------------------------------------------------- C20

\* C20: account required to accept. Accept_Transfer by the recipient succeeds
\* only if the recipient has an active AssetHoldingAccount for the asset type
\* in transfer, and every active Asset owned by a party other than the issuer
\* has an active AssetHoldingAccount at its (asset_type, owner) key.
C20_AccountRequiredToAccept ==
    /\ \A t \in ledger.transfers :
           ExerciseTransfer(ledger, "Accept_Transfer", t.cid, t.payload.recipient).ok
               => AccountsAt(ledger, t.payload.asset.asset_type,
                             t.payload.recipient) # {}
    /\ \A a \in ledger.assets :
           a.payload.owner # a.payload.asset_type.issuer
               => AccountsAt(ledger, a.payload.asset_type, a.payload.owner) # {}

\* ---------------------------------------------------------------- C21

\* The sum of the amounts of a set of contracts.
RECURSIVE SumAmounts(_)
SumAmounts(contracts) ==
    IF contracts = {} THEN 0
    ELSE LET c == CHOOSE x \in contracts : TRUE
         IN  c.payload.amount + SumAmounts(contracts \ {c})

\* The amount of an asset type held in active Assets.
Held(L, ty) == SumAmounts({c \in L.assets : c.payload.asset_type = ty})

\* The amount of an asset type in active AssetTransfers.
InTransfer(L, ty) ==
    SumAmounts({c \in L.transfers : c.payload.asset.asset_type = ty})

\* The outcomes of the commands that move an amount: Create_Transfer and the
\* three choices of AssetTransfer, by any party on any contract.
Movements(L) ==
    {Create_Transfer(L, self, by, amount, recipient) :
         <<by, self, amount, recipient>> \in
             Parties \X L.accounts \X Amounts \X Parties}
    \cup {ExerciseTransfer(L, choice, cid, by) :
         <<choice, cid, by>> \in TransferChoices \X ContractIds \X Parties}

\* The outcomes of the commands on accounts and proposals that move nothing.
Invitations(L) ==
    {Invite_New_Asset_Holder(L, self, by, recipient) :
         <<by, self, recipient>> \in Parties \X L.accounts \X Parties}
    \cup {ExerciseProposal(L, choice, cid, by) :
         <<choice, cid, by>> \in ProposalChoices \X ContractIds \X Parties}

\* C21: global conservation. For every asset type the sum of the amounts of
\* the active Assets and of the active AssetTransfers is left unchanged by
\* every successful Create_Transfer, Cancel_Transfer, Reject_Transfer and
\* Accept_Transfer, by any party on any contract, and by the commands on
\* accounts and proposals; only Airdrop and the direct creation of an Asset
\* change it.
C21_GlobalConservation ==
    \A res \in Movements(ledger) \cup Invitations(ledger), ty \in AssetType :
        res.ok =>
            Held(res.ledger, ty) + InTransfer(res.ledger, ty)
                = Held(ledger, ty) + InTransfer(ledger, ty)

\* Two parties hold Assets and a transfer of a positive amount is active that
\* its recipient can accept and its sender can cancel, while an Airdrop of 1
\* would raise the sum.
C21_Witness ==
    \E t \in ledger.transfers, acc \in ledger.accounts :
        LET ty == t.payload.asset.asset_type
            airdropped == Airdrop(ledger, acc, acc.payload.asset_type.issuer, 1)
        IN  /\ t.payload.amount > 0
            /\ t.payload.recipient # t.payload.asset.owner
            /\ Held(ledger, ty) > 0
            /\ ExerciseTransfer(ledger, "Accept_Transfer", t.cid, t.payload.recipient).ok
            /\ ExerciseTransfer(ledger, "Cancel_Transfer", t.cid, t.payload.asset.owner).ok
            /\ airdropped.ok
            /\ Held(airdropped.ledger, ty) = Held(ledger, ty) + 1

\* ---------------------------------------------------------------- C22

\* C22: no counterfeiting by holders. For every asset type the amount in
\* active Assets never exceeds what was minted by Airdrop and direct creation,
\* which by conservation is the amount held plus the amount in transfer:
\* every active AssetTransfer has amount >= 0, and no successful
\* Create_Transfer raises the amount of the sender's own Asset.
C22_NoCounterfeiting ==
    /\ \A ty \in AssetType :
           Held(ledger, ty) <= Held(ledger, ty) + InTransfer(ledger, ty)
    /\ \A t \in ledger.transfers : t.payload.amount >= 0
    /\ \A acc \in ledger.accounts, amount \in Amounts, recipient \in Parties :
           LET ty == acc.payload.asset_type
               owner == acc.payload.owner
               res == Create_Transfer(ledger, acc, owner, amount, recipient)
           IN  res.ok => Position(res.ledger, ty, owner) <= Position(ledger, ty, owner)

\* ---------------------------------------------------------------- C23

\* A command's outcome leaves the position of every party other than the
\* submitter at least what it was.
LowersNoOtherPosition(L, res, by) ==
    res.ok =>
        \A ty \in AssetType, p \in Parties \ {by} :
            Position(res.ledger, ty, p) >= Position(L, ty, p)

\* C23: a holder's balance only drops by the holder's own action. No
\* successful command (Airdrop, Create_Transfer, a choice on an AssetTransfer
\* or on a proposal, Invite_New_Asset_Holder) lowers the amount of the Asset
\* of a party other than its submitter; in particular a successful Airdrop by
\* the issuer into another party's account does not lower that party's
\* amount.
C23_BalanceDropsOnlyByOwner ==
    /\ \A acc \in ledger.accounts, by \in Parties, amount \in Amounts :
           LowersNoOtherPosition(ledger, Airdrop(ledger, acc, by, amount), by)
    /\ \A acc \in ledger.accounts, by \in Parties, amount \in Amounts,
          recipient \in Parties :
           /\ LowersNoOtherPosition(ledger,
                  Create_Transfer(ledger, acc, by, amount, recipient), by)
           /\ LowersNoOtherPosition(ledger,
                  Invite_New_Asset_Holder(ledger, acc, by, recipient), by)
    /\ \A cid \in ContractIds, by \in Parties :
           /\ \A choice \in TransferChoices :
                  LowersNoOtherPosition(ledger,
                      ExerciseTransfer(ledger, choice, cid, by), by)
           /\ \A choice \in ProposalChoices :
                  LowersNoOtherPosition(ledger,
                      ExerciseProposal(ledger, choice, cid, by), by)

\* C23 without Airdrop: the commands other than Airdrop lower no position of
\* a party other than the submitter.
C23_OtherCommandsLowerNoPosition ==
    /\ \A acc \in ledger.accounts, by \in Parties, amount \in Amounts,
          recipient \in Parties :
           /\ LowersNoOtherPosition(ledger,
                  Create_Transfer(ledger, acc, by, amount, recipient), by)
           /\ LowersNoOtherPosition(ledger,
                  Invite_New_Asset_Holder(ledger, acc, by, recipient), by)
    /\ \A cid \in ContractIds, by \in Parties :
           /\ \A choice \in TransferChoices :
                  LowersNoOtherPosition(ledger,
                      ExerciseTransfer(ledger, choice, cid, by), by)
           /\ \A choice \in ProposalChoices :
                  LowersNoOtherPosition(ledger,
                      ExerciseProposal(ledger, choice, cid, by), by)

\* ---------------------------------------------------------------- C24

\* C24: CreateAccountForm loading flag. After the submit handler has run with
\* isLoading false the flag is true while the timer is pending; when the
\* timer callback has fired it has called handleClose, then handleSubmit if
\* provided, and, the component still mounted, isLoading is false again.
C24_LoadingFlagRestored ==
    /\ (form.mounted /\ form.timers # <<>>) => form.isLoading
    /\ (form.newAccounts # <<>> /\ form.timers = <<>>) =>
           /\ form.calls = IF form.hasHandleSubmit
                           THEN <<"handleClose", "handleSubmit">>
                           ELSE <<"handleClose">>
           /\ form.mounted => ~form.isLoading

\* What the code does: the callback calls toggleSubmitting of the render
\* that saw isLoading false, so it sets the flag to true again; a form that
\* is still mounted after the callback keeps isLoading true.
C24_LoadingFlagStaysTrue ==
    /\ (form.mounted /\ form.timers # <<>>) => form.isLoading
    /\ (form.newAccounts # <<>> /\ form.timers = <<>>) =>
           /\ form.calls = IF form.hasHandleSubmit
                           THEN <<"handleClose", "handleSubmit">>
                           ELSE <<"handleClose">>
           /\ form.mounted => form.isLoading

\* The timer of a click has fired and the form is still mounted.
C24_Witness ==
    /\ form.newAccounts # <<>>
    /\ form.timers = <<>>
    /\ form.mounted
    /\ form.hasHandleSubmit
    /\ form.calls = <<"handleClose", "handleSubmit">>

====
